---- MODULE Spec2Model ----
(***************************************************************************)
(* Model of the JSON-RPC server of src/main.rs: the X-Admin-Auth meta      *)
(* extractor, ProtectRpcMiddleware (on_call / handle_admin_rpc_call), the  *)
(* method table that main() composes from MainRpc and AdminRpc, and the    *)
(* two handlers g and f.                                                   *)
(*                                                                         *)
(* Strings that the code only compares or copies (method names, messages)  *)
(* are TLA+ strings.  The header value is a sequence of bytes, because the *)
(* extractor decodes it (HeaderValue::to_str) and the middleware compares  *)
(* the decoded text with "root".                                           *)
(* Option<T> is a sequence of length 0 (None) or 1 (Some).                 *)
(***************************************************************************)
EXTENDS Integers, Sequences, FiniteSets, TLC

VARIABLES
    protected,  \* ProtectRpcMiddleware.protected : Vec<String>
    methods,    \* the method table of `io` after extend_with and augment
    req         \* the requests in flight, one record per worker

vars == <<protected, methods, req>>

\* Number of requests processed concurrently in SpecConc.
NumRequests == 2

\* u8::MAX, the range of the handlers' arguments and results.
U8Max == 255

None == <<>>
Some(x) == <<x>>

----------------------------------------------------------------------------
(* Handlers *)

saturating_mul(x, y) == IF x * y > U8Max THEN U8Max ELSE x * y

saturating_add(x, y) == IF x + y > U8Max THEN U8Max ELSE x + y

\* variant: u8 wrapping_sub instead of saturating_sub
wrapping_sub(x, y) == (x - y) % (U8Max + 1)

saturating_sub(x, y) == IF x - y < 0 THEN 0 ELSE x - y

RpcOk(v) == [ok |-> TRUE, value |-> v, code |-> 0, message |-> ""]
RpcErr(c, m) == [ok |-> FALSE, value |-> 0, code |-> c, message |-> m]

\* MainRpcImpl::g
g(a, b) == RpcOk(saturating_sub(saturating_add(saturating_mul(a, 10), b), 3))

\* AdminRpcImpl::f
f(a, b) == RpcOk(saturating_add(saturating_add(saturating_mul(a, 10), b), 2))

----------------------------------------------------------------------------
(* Protocol types of jsonrpc_core, as the program uses them *)

\* ErrorCode::InvalidRequest and ErrorCode::MethodNotFound
InvalidRequest == -32600
MethodNotFound == -32601

V2 == "2.0"

IdNull == [kind |-> "Null", num |-> 0, str |-> ""]
IdNum(n) == [kind |-> "Num", num |-> n, str |-> ""]
IdStr(s) == [kind |-> "Str", num |-> 0, str |-> s]

\* Call::MethodCall(MethodCall { jsonrpc, method, params, id })
MethodCall(jsonrpc, method, params, id) ==
    [kind |-> "MethodCall", jsonrpc |-> jsonrpc, method |-> method,
     params |-> params, id |-> id]

\* Call::Notification(Notification { jsonrpc, method, params })
Notification(jsonrpc, method, params) ==
    [kind |-> "Notification", jsonrpc |-> jsonrpc, method |-> method,
     params |-> params, id |-> IdNull]

\* Call::Invalid { id }
Invalid(id) ==
    [kind |-> "Invalid", jsonrpc |-> None, method |-> "",
     params |-> <<>>, id |-> id]

\* Output::from(result, id, jsonrpc): Success or Failure, echoing id and jsonrpc
Output_from(result, id, jsonrpc) ==
    IF result.ok
    THEN [kind |-> "Success", result |-> result.value, code |-> 0,
          message |-> "", id |-> id, jsonrpc |-> jsonrpc]
    ELSE [kind |-> "Failure", result |-> 0, code |-> result.code,
          message |-> result.message, id |-> id, jsonrpc |-> jsonrpc]

----------------------------------------------------------------------------
(* Meta extractor *)

\* #[error(...)] of Error::AdminAuthHeaderParserError, i.e. error.to_string()
AdminAuthHeaderParserError ==
    "X-Admin-Auth header value must contain only visible ASCII characters"

\* HeaderValue::to_str succeeds on visible ASCII (32..126) and tab only.
IsVisibleAscii(b) == (b >= 32 /\ b < 127) \/ b = 9

\* variant: a lossy decode that never fails
to_str_lossy(v) ==
    [ok |-> TRUE, value |-> SelectSeq(v, IsVisibleAscii), error |-> ""]

to_str(v) ==
    IF \A i \in DOMAIN v : IsVisibleAscii(v[i])
    THEN [ok |-> TRUE, value |-> v, error |-> ""]
    ELSE [ok |-> FALSE, value |-> <<>>, error |-> AdminAuthHeaderParserError]

\* The closure given to ServerBuilder::with_meta_extractor.  `header` is
\* req.headers().get("X-Admin-Auth"): None or Some(bytes).
meta_extractor(header) ==
    [auth |-> IF header = None THEN None ELSE Some(to_str(header[1]))]

\* "root" as bytes
Root == <<114, 111, 111, 116>>

----------------------------------------------------------------------------
(* ProtectRpcMiddleware *)

Contains(vec, x) == \E i \in DOMAIN vec : vec[i] = x

Left(output) == [side |-> "Left", output |-> Some(output), next |-> None]
Right(call, meta) ==
    [side |-> "Right", output |-> None, next |-> Some([call |-> call, meta |-> meta])]

\* variant: the error Output does not take the call's id and version
unauthorized_error_null_id(message, id, jsonrpc) ==
    Left(Output_from(RpcErr(InvalidRequest, message), IdNull, Some(V2)))

\* the closure unauthorized_error of handle_admin_rpc_call
unauthorized_error(message, id, jsonrpc) ==
    Left(Output_from(RpcErr(InvalidRequest, message), id, jsonrpc))

\* variant: a missing header is let through
handle_admin_rpc_call_absent_ok(prot, call, meta, jsonrpc, method, id) ==
    IF Contains(prot, method) /\ meta.auth # None
    THEN IF ~meta.auth[1].ok
         THEN unauthorized_error(meta.auth[1].error, id, jsonrpc)
         ELSE IF meta.auth[1].value # Root
              THEN unauthorized_error("X-Admin-Auth must be 'root'", id, jsonrpc)
              ELSE Right(call, meta)
    ELSE Right(call, meta)

\* variant: the header value is compared by prefix (starts_with("root"))
handle_admin_rpc_call_prefix(prot, call, meta, jsonrpc, method, id) ==
    IF Contains(prot, method)
    THEN IF meta.auth = None
         THEN unauthorized_error("X-Admin-Auth header required", id, jsonrpc)
         ELSE IF ~meta.auth[1].ok
              THEN unauthorized_error(meta.auth[1].error, id, jsonrpc)
              ELSE IF ~(Len(meta.auth[1].value) >= Len(Root)
                        /\ SubSeq(meta.auth[1].value, 1, Len(Root)) = Root)
                   THEN unauthorized_error("X-Admin-Auth must be 'root'", id, jsonrpc)
                   ELSE Right(call, meta)
    ELSE Right(call, meta)

\* variant: the comparison with "root" is inverted
handle_admin_rpc_call_inverted(prot, call, meta, jsonrpc, method, id) ==
    IF Contains(prot, method)
    THEN IF meta.auth = None
         THEN unauthorized_error("X-Admin-Auth header required", id, jsonrpc)
         ELSE IF ~meta.auth[1].ok
              THEN unauthorized_error(meta.auth[1].error, id, jsonrpc)
              ELSE IF meta.auth[1].value = Root
                   THEN unauthorized_error("X-Admin-Auth must be 'root'", id, jsonrpc)
                   ELSE Right(call, meta)
    ELSE Right(call, meta)

\* variant: the header is checked whether or not the method is protected
handle_admin_rpc_call_all_methods(prot, call, meta, jsonrpc, method, id) ==
    IF meta.auth = None
    THEN unauthorized_error("X-Admin-Auth header required", id, jsonrpc)
    ELSE IF ~meta.auth[1].ok
         THEN unauthorized_error(meta.auth[1].error, id, jsonrpc)
         ELSE IF meta.auth[1].value # Root
              THEN unauthorized_error("X-Admin-Auth must be 'root'", id, jsonrpc)
              ELSE Right(call, meta)

\* variant: next(call, meta) is evaluated before the checks
handle_admin_rpc_call_eager_next(prot, call, meta, jsonrpc, method, id) ==
    LET fwd == Right(call, meta)
        e == IF Contains(prot, method)
             THEN IF meta.auth = None
                  THEN unauthorized_error("X-Admin-Auth header required", id, jsonrpc)
                  ELSE IF ~meta.auth[1].ok
                       THEN unauthorized_error(meta.auth[1].error, id, jsonrpc)
                       ELSE IF meta.auth[1].value # Root
                            THEN unauthorized_error("X-Admin-Auth must be 'root'",
                                                    id, jsonrpc)
                            ELSE fwd
             ELSE fwd
    IN [e EXCEPT !.next = fwd.next]

handle_admin_rpc_call(prot, call, meta, jsonrpc, method, id) ==
    IF Contains(prot, method)
    THEN IF meta.auth = None
         THEN unauthorized_error("X-Admin-Auth header required", id, jsonrpc)
         ELSE IF ~meta.auth[1].ok
              THEN unauthorized_error(meta.auth[1].error, id, jsonrpc)
              ELSE IF meta.auth[1].value # Root
                   THEN unauthorized_error("X-Admin-Auth must be 'root'", id, jsonrpc)
                   ELSE Right(call, meta)
    ELSE Right(call, meta)

\* variant: notifications are checked like method calls
on_call_notifications_too(prot, call, meta) ==
    IF call.kind \in {"MethodCall", "Notification"}
    THEN handle_admin_rpc_call(prot, call, meta, call.jsonrpc, call.method, call.id)
    ELSE Right(call, meta)

on_call(prot, call, meta) ==
    IF call.kind = "MethodCall"
    THEN handle_admin_rpc_call(prot, call, meta, call.jsonrpc, call.method, call.id)
    ELSE Right(call, meta)

----------------------------------------------------------------------------
(* main(): the protected set and the method table *)

\* MainRpcImpl.to_delegate() and AdminRpcImpl.to_delegate(): (name, method) pairs
MainDelegate == <<[name |-> "g", method |-> "MainRpc::g"]>>
AdminDelegate == <<[name |-> "f", method |-> "AdminRpc::f"]>>

\* .into_iter().map(|(name, _)| name).collect()
Names(delegate) == [i \in DOMAIN delegate |-> delegate[i].name]

RECURSIVE extend_with(_, _)
\* io.extend_with(delegate) / admin_io.augment(&mut io): later entries override
extend_with(table, delegate) ==
    IF delegate = <<>> THEN table
    ELSE extend_with((delegate[1].name :> delegate[1].method) @@ table, Tail(delegate))

EmptyTable == [n \in {} |-> ""]

\* Calling a registered method with its two u8 parameters.
call_method(m, params) ==
    IF m = "MainRpc::g" THEN g(params[1], params[2]) ELSE f(params[1], params[2])

\* `next`: what `io` does with a call the middleware lets through: a method
\* call is resolved in the table main() built and answered with
\* Output::from(result, id, jsonrpc); a notification has no Output; an
\* invalid entry is answered with an InvalidRequest Output.  The handlers
\* take no meta argument.  Calls carry the two u8 parameters of the handlers'
\* signatures; the envelope validation jsonrpc_core does before calling a
\* handler is outside src/ and not part of this operator.
dispatch(table, call, meta) ==
    CASE call.kind = "MethodCall" ->
           Some(Output_from(
               IF call.method \in DOMAIN table
               THEN call_method(table[call.method], call.params)
               ELSE RpcErr(MethodNotFound, "Method not found"),
               call.id, call.jsonrpc))
      [] call.kind = "Notification" -> None
      [] OTHER ->
           Some(Output_from(RpcErr(InvalidRequest, "Invalid request"), call.id, Some(V2)))

----------------------------------------------------------------------------
(* Inputs *)

Versions == {None, Some(V2)}
MethodNames == {"f", "g", "h", "F"}
Ids == {IdNull, IdNum(1), IdStr("a")}
ParamSamples == {<<5, 3>>, <<0, 0>>, <<1, 1>>, <<255, 255>>}

Calls ==
    {MethodCall(v, m, p, i) : v \in Versions, m \in MethodNames,
                              p \in ParamSamples, i \in Ids}
    \cup {Notification(v, m, p) : v \in Versions, m \in MethodNames, p \in ParamSamples}
    \cup {Invalid(i) : i \in Ids}

\* absent, "root", "toor", "Root", "root ", "", 0xFF, "roo" 0xFF "t"
Headers ==
    {None, Some(Root), Some(<<116, 111, 111, 114>>), Some(<<82, 111, 111, 116>>),
     Some(<<114, 111, 111, 116, 32>>), Some(<<>>), Some(<<255>>),
     Some(<<114, 111, 111, 255, 116>>)}

ConcCalls ==
    {MethodCall(Some(V2), m, <<5, 3>>, IdNum(i)) : m \in {"f", "g", "F"}, i \in {1, 2}}
    \cup {Notification(Some(V2), "f", <<5, 3>>)}
ConcHeaders == {None, Some(Root), Some(<<116, 111, 111, 114>>), Some(<<255>>)}

ByteCalls ==
    {MethodCall(Some(V2), m, <<a, b>>, IdNum(1)) :
        m \in {"f", "g"}, a \in 0..U8Max, b \in 0..U8Max}
ByteHeaders == {None, Some(Root)}

----------------------------------------------------------------------------
(* State machine *)

Idle ==
    [pc |-> "idle", header |-> None, call |-> Invalid(IdNull),
     meta |-> [auth |-> None], future |-> "", next |-> <<>>, out |-> None]

\* Construction in main(): protect_middleware, io, extend_with, augment.
Startup ==
    /\ protected = Names(AdminDelegate)
    /\ methods = extend_with(extend_with(EmptyTable, MainDelegate), AdminDelegate)

Init ==
    /\ Startup
    /\ req = [r \in 1..1 |-> Idle]

InitConc ==
    /\ Startup
    /\ req = [r \in 1..NumRequests |-> Idle]

\* An HTTP request arrives at worker r: the meta extractor runs and the body
\* is parsed to a Call.
Receive(r, C, H) ==
    /\ req[r].pc = "idle"
    /\ \E c \in C, h \in H :
         req' = [req EXCEPT ![r] =
                   [Idle EXCEPT !.pc = "received", !.header = h, !.call = c,
                                !.meta = meta_extractor(h)]]
    /\ UNCHANGED <<protected, methods>>

\* variant: an authorised call is remembered by dropping its method from the
\* protected list
OnCallForgetting(r) ==
    /\ req[r].pc = "received"
    /\ LET e == on_call(protected, req[r].call, req[r].meta)
       IN /\ req' = [req EXCEPT ![r].pc = "called",
                                ![r].future = e.side,
                                ![r].next = req[r].next \o e.next,
                                ![r].out = e.output]
          /\ protected' =
                IF e.side = "Right" /\ req[r].call.kind = "MethodCall"
                THEN SelectSeq(protected, LAMBDA n : n # req[r].call.method)
                ELSE protected
    /\ UNCHANGED methods

\* io.handle_call invokes middleware.on_call(call, meta, next): either a
\* ready error future (Left) or the future returned by next(call, meta).
OnCall(r) ==
    /\ req[r].pc = "received"
    /\ LET e == on_call(protected, req[r].call, req[r].meta)
       IN req' = [req EXCEPT ![r].pc = "called",
                             ![r].future = e.side,
                             ![r].next = req[r].next \o e.next,
                             ![r].out = e.output]
    /\ UNCHANGED <<protected, methods>>

\* The returned future is polled: Left is already complete, Right runs the
\* dispatcher on the call and meta it was given.
Poll(r) ==
    /\ req[r].pc = "called"
    /\ req' = [req EXCEPT ![r].pc = "done",
                          ![r].out =
                              IF req[r].future = "Left" THEN req[r].out
                              ELSE dispatch(methods, req[r].next[1].call,
                                            req[r].next[1].meta)]
    /\ UNCHANGED <<protected, methods>>

\* The response is written and the worker is free again.
Respond(r) ==
    /\ req[r].pc = "done"
    /\ req' = [req EXCEPT ![r] = Idle]
    /\ UNCHANGED <<protected, methods>>

Next ==
    \E r \in DOMAIN req :
        \/ Receive(r, Calls, Headers)
        \/ OnCall(r)
        \/ Poll(r)
        \/ Respond(r)

NextConc ==
    \E r \in DOMAIN req :
        \/ Receive(r, ConcCalls, ConcHeaders)
        \/ OnCall(r)
        \/ Poll(r)
        \/ Respond(r)

NextBytes ==
    \E r \in DOMAIN req :
        \/ Receive(r, ByteCalls, ByteHeaders)
        \/ OnCall(r)
        \/ Poll(r)
        \/ Respond(r)

Spec == Init /\ [][Next]_vars
SpecConc == InitConc /\ [][NextConc]_vars
SpecBytes == Init /\ [][NextBytes]_vars

TypeOK ==
    /\ \A r \in DOMAIN req :
         /\ req[r].pc \in {"idle", "received", "called", "done"}
         /\ Len(req[r].next) <= 1
         /\ Len(req[r].out) <= 1

----------------------------------------------------------------------------
(* Properties *)

Workers == DOMAIN req

\* on_call has returned for the request of worker r
Called(r) == req[r].pc \in {"called", "done"}
\* the response of worker r is complete
Done(r) == req[r].pc = "done"

\* a response-expecting call to a protected method
ProtectedCall(r) ==
    req[r].call.kind = "MethodCall" /\ Contains(protected, req[r].call.method)

\* the Output is the authorization error with the given message
IsAuthError(out, message) ==
    /\ Len(out) = 1
    /\ out[1].kind = "Failure"
    /\ out[1].code = -32600
    /\ out[1].message = message

AuthOk(r) == req[r].meta.auth # None /\ req[r].meta.auth[1].ok

\* C1: a method call to a protected method with no X-Admin-Auth header gets
\* the InvalidRequest error "X-Admin-Auth header required", and next is not
\* called.
C1_NoHeaderRejected ==
    \A r \in Workers :
        (Called(r) /\ ProtectedCall(r) /\ req[r].header = None) =>
            /\ req[r].meta.auth = None
            /\ req[r].next = <<>>
            /\ IsAuthError(req[r].out, "X-Admin-Auth header required")

C1_Witness ==
    \E r \in Workers :
        /\ Done(r) /\ ProtectedCall(r) /\ req[r].header = None
        /\ req[r].call.params = <<5, 3>>
        /\ IsAuthError(req[r].out, "X-Admin-Auth header required")

\* C2: a method call to a protected method whose header decodes to a text
\* other than "root" gets the InvalidRequest error "X-Admin-Auth must be
\* 'root'", and next is not called.
C2_WrongValueRejected ==
    \A r \in Workers :
        (Called(r) /\ ProtectedCall(r) /\ AuthOk(r)
           /\ req[r].meta.auth[1].value # <<114, 111, 111, 116>>) =>
            /\ req[r].next = <<>>
            /\ IsAuthError(req[r].out, "X-Admin-Auth must be 'root'")

\* the header "root " (with a trailing space) is rejected
C2_Witness ==
    \E r \in Workers :
        /\ Done(r) /\ ProtectedCall(r)
        /\ req[r].header = Some(<<114, 111, 111, 116, 32>>)
        /\ AuthOk(r)
        /\ IsAuthError(req[r].out, "X-Admin-Auth must be 'root'")

\* the handler registered by AdminRpcImpl under the name m, called directly
DirectAdmin(m, params) ==
    LET i == CHOOSE j \in DOMAIN AdminDelegate : AdminDelegate[j].name = m
    IN call_method(AdminDelegate[i].method, params)

C4_UnprotectedIgnoresHeader ==
    \A r1, r2 \in Workers :
        (/\ Done(r1) /\ Done(r2)
         /\ req[r1].call = req[r2].call
         /\ ~Contains(protected, req[r1].call.method)) =>
            /\ req[r1].out = req[r2].out
            /\ req[r1].future = "Right" /\ req[r2].future = "Right"
            /\ Len(req[r1].next) = 1 /\ Len(req[r2].next) = 1
            /\ req[r1].next[1].call = req[r2].next[1].call

\* the same call to g, once with no header and once with a malformed one
C4_Witness ==
    \E r1, r2 \in Workers :
        /\ Done(r1) /\ Done(r2)
        /\ req[r1].call = req[r2].call
        /\ req[r1].call.kind = "MethodCall" /\ req[r1].call.method = "g"
        /\ req[r1].header = None
        /\ req[r2].header = Some(<<255>>)
        /\ req[r1].out = req[r2].out
        /\ req[r1].out[1].kind = "Success" /\ req[r1].out[1].result = 50

\* a header value with a byte that is not visible ASCII
Malformed(h) ==
    /\ h # None
    /\ \E i \in DOMAIN h[1] : ~(h[1][i] \in 32..126 \/ h[1][i] = 9)

\* C5: a method call to a protected method with an undecodable header gets
\* the InvalidRequest error whose message is the header-encoding error, and
\* next is not called.
C5_MalformedHeaderRejected ==
    \A r \in Workers :
        (Called(r) /\ ProtectedCall(r) /\ Malformed(req[r].header)) =>
            /\ req[r].meta.auth # None /\ ~req[r].meta.auth[1].ok
            /\ req[r].next = <<>>
            /\ IsAuthError(req[r].out,
                 "X-Admin-Auth header value must contain only visible ASCII characters")

C5_Witness ==
    \E r \in Workers :
        /\ Done(r) /\ ProtectedCall(r)
        /\ req[r].header = Some(<<114, 111, 111, 255, 116>>)
        /\ req[r].call.params = <<1, 1>>
        /\ req[r].out[1].kind = "Failure"
        /\ req[r].out[1].message \notin
             {"X-Admin-Auth header required", "X-Admin-Auth must be 'root'"}

\* C6: the Output of every method call carries the id and the protocol
\* version (present or absent) of the call, for the middleware's error
\* Outputs and for the dispatcher's Outputs alike.
C6_IdAndVersionEchoed ==
    \A r \in Workers :
        (Done(r) /\ req[r].call.kind = "MethodCall") =>
            /\ Len(req[r].out) = 1
            /\ req[r].out[1].id = req[r].call.id
            /\ req[r].out[1].jsonrpc = req[r].call.jsonrpc

\* an authorization error for a call with a string id and no version
C6_Witness ==
    \E r \in Workers :
        /\ Done(r) /\ ProtectedCall(r)
        /\ req[r].future = "Left"
        /\ req[r].call.id = IdStr("a") /\ req[r].call.jsonrpc = None
        /\ req[r].out[1].id = IdStr("a") /\ req[r].out[1].jsonrpc = None

Min(x, y) == IF x < y THEN x ELSE y
Max(x, y) == IF x > y THEN x ELSE y

\* C7: for all bytes a, b: g(a,b) = max(0, min(255, min(255, 10a) + b) - 3)
\* and f(a,b) = min(255, min(255, min(255, 10a) + b) + 2), both Ok;
\* g(0,0) = 0, g(5,3) = 50, f(5,3) = 55, f(255,255) = 255.
C7_SaturatingArithmetic ==
    \A r \in Workers :
        (Done(r) /\ req[r].future = "Right" /\ req[r].call.kind = "MethodCall"
           /\ req[r].call.method \in {"f", "g"}) =>
            LET a == req[r].call.params[1]
                b == req[r].call.params[2]
                m == req[r].call.method
                out == req[r].out[1]
            IN /\ out.kind = "Success"
               /\ out.result \in 0..255
               /\ m = "g" => out.result = Max(0, Min(255, Min(255, a * 10) + b) - 3)
               /\ m = "f" => out.result = Min(255, Min(255, Min(255, a * 10) + b) + 2)
               /\ (m = "g" /\ a = 0 /\ b = 0) => out.result = 0
               /\ (m = "g" /\ a = 5 /\ b = 3) => out.result = 50
               /\ (m = "f" /\ a = 5 /\ b = 3) => out.result = 55
               /\ (m = "f" /\ a = 255 /\ b = 255) => out.result = 255

\* g(0,0): the subtraction saturates at 0
C7_Witness ==
    \E r \in Workers :
        /\ Done(r) /\ req[r].call.method = "g"
        /\ req[r].call.params = <<0, 0>>
        /\ req[r].out[1].kind = "Success" /\ req[r].out[1].result = 0

\* C8: a call that is not a method call (a notification or an invalid entry)
\* is forwarded unchanged to next without any check, whatever its method and
\* header.
C8_OtherCallsForwarded ==
    \A r \in Workers :
        (Called(r) /\ req[r].call.kind # "MethodCall") =>
            /\ req[r].future = "Right"
            /\ req[r].next = <<[call |-> req[r].call, meta |-> req[r].meta]>>

\* a notification of the protected method f with no header reaches next
C8_Witness ==
    \E r \in Workers :
        /\ Done(r) /\ req[r].call.kind = "Notification"
        /\ req[r].call.method = "f" /\ req[r].header = None
        /\ Len(req[r].next) = 1

\* the Output of a request processed alone by the server as started
AloneOutput(call, header) ==
    LET prot == Names(AdminDelegate)
        table == extend_with(extend_with(EmptyTable, MainDelegate), AdminDelegate)
        meta == meta_extractor(header)
        e == on_call(prot, call, meta)
    IN IF e.side = "Left" THEN e.output ELSE dispatch(table, call, meta)

\* C9: with requests interleaved, the protected set and the method table
\* stay as built at startup, every Output is the one the request gets when
\* processed alone, and only a method whose name equals a protected name is
\* ever refused.
C9_RequestsIndependent ==
    /\ protected = Names(AdminDelegate)
    /\ methods = extend_with(extend_with(EmptyTable, MainDelegate), AdminDelegate)
    /\ \A r \in Workers :
         /\ Done(r) => req[r].out = AloneOutput(req[r].call, req[r].header)
         /\ (Called(r) /\ req[r].future = "Left") => req[r].call.method = "f"

\* two requests in flight at once, one refused and one answered
C9_Witness ==
    \E r1, r2 \in Workers :
        /\ r1 # r2
        /\ Done(r1) /\ req[r1].future = "Left" /\ req[r1].call.method = "f"
        /\ Done(r2) /\ req[r2].future = "Right" /\ req[r2].call.method = "f"
        /\ req[r2].call.kind = "MethodCall"
        /\ req[r2].out[1].kind = "Success"

\* the condition under which the middleware answers by itself
Refused(r) ==
    /\ req[r].call.kind = "MethodCall"
    /\ Contains(protected, req[r].call.method)
    /\ ~(/\ req[r].meta.auth # None
         /\ req[r].meta.auth[1].ok
         /\ req[r].meta.auth[1].value = <<114, 111, 111, 116>>)

\* C10: on_call either returns a completed authorization error and does not
\* call next, or calls next once with the call and meta it received and
\* returns next's result; the first happens exactly for a method call to a
\* protected method whose auth is not Some(Ok("root")).
C10_StopOrForward ==
    \A r \in Workers :
        Called(r) =>
            /\ req[r].future \in {"Left", "Right"}
            /\ req[r].future = "Left" <=> Refused(r)
            /\ req[r].future = "Left" =>
                 /\ req[r].next = <<>>
                 /\ Len(req[r].out) = 1
                 /\ req[r].out[1].kind = "Failure"
                 /\ req[r].out[1].code = -32600
            /\ req[r].future = "Right" =>
                 /\ req[r].next = <<[call |-> req[r].call, meta |-> req[r].meta]>>
                 /\ Done(r) => req[r].out = dispatch(methods, req[r].call, req[r].meta)

\* both outcomes for the same protected method: "Root" is refused
C10_Witness ==
    \E r \in Workers :
        /\ Done(r) /\ ProtectedCall(r)
        /\ req[r].header = Some(<<82, 111, 111, 116>>)
        /\ req[r].future = "Left" /\ req[r].next = <<>>

====
